---------------------------- MODULE Spec2Model ----------------------------
(***************************************************************************)
(* A model of the control core of worldquant-agent:                        *)
(*   - MCPClient (src/src/mcp_client.py): name-based tool dispatch, the    *)
(*     tenacity retry policy around run_tool / wq_create_simulation /      *)
(*     wq_get_result, and the best-effort store_put / store_get chain;     *)
(*   - build_graph (src/src/graph.py): the node topology and the           *)
(*     conditional edge out of "decide";                                   *)
(*   - main (src/src/run.py): the driver, its except block and snapshot;   *)
(*   - SQLiteStore (src/src/storage.py): the snapshots relation.           *)
(* The node bodies (nodes_author_risk, nodes_submit_poll,                  *)
(* nodes_analyze_decide) and models.GraphState are imported by graph.py    *)
(* but their files are not part of the source tree; they are modelled      *)
(* from the written specification and marked so in the model map.          *)
(***************************************************************************)
EXTENDS Integers, Sequences, FiniteSets, TLC

VARIABLES
    tools,        \* names resolvable in worldquant_platform_functions
    callFn,       \* retry-wrapped method in progress, or "idle"
    callName,     \* capability name the call resolves
    callStatus,   \* "idle" | "running" | "returned" | "raised"
    log,          \* outcome of every attempt of the wrapped body so far
    waits,        \* backoff delays slept between the attempts so far
    execs,        \* number of times the capability itself was executed
    lastEnv,      \* what the capability did on the latest attempt
    callResult,   \* value the call returned
    callError,    \* failure the call raised
    pc,           \* position of the driver / graph
    state,        \* GraphState threaded through the nodes
    graphError,   \* failure app.invoke raised
    mainOutcome,  \* how main() ended
    saveAttempts, \* save_snapshot calls made by main's except block
    saveFailed,   \* whether that save_snapshot call itself raised
    nAuthor,      \* author executions of this run
    nDecide,      \* decide executions of this run
    snapshots,    \* rows of the snapshots table, in insertion order
    clock,        \* int(time.time())
    loaded,       \* the last store call, when it was load_latest_snapshot: its result
    leaderboard,  \* rows of the leaderboard table, in rowid order
    topk,         \* the last store call, when it was top_k: its k and result
    gwOp,         \* latest store_put / store_get call and its key
    gwTrace,      \* capability names that call executed, in order
    gwResult,     \* what that call returned
    gwError,      \* failure that call let through to its caller
    gwCaught,     \* failure that call's except branch caught
    signature,    \* per platform function, what its signature says of timeout
    invocation    \* the latest _call_tool with keyword arguments, and its result

vars == <<tools, callFn, callName, callStatus, log, waits, execs, lastEnv,
          callResult, callError, pc, state, graphError, mainOutcome,
          saveAttempts, saveFailed, nAuthor, nDecide, snapshots, clock,
          loaded, leaderboard, topk, gwOp, gwTrace, gwResult, gwError, gwCaught,
          signature, invocation>>

callVars == <<callFn, callName, callStatus, log, waits, execs, lastEnv,
              callResult, callError>>
runVars == <<pc, state, graphError, mainOutcome, saveAttempts, saveFailed,
             nAuthor, nDecide>>
storeVars == <<snapshots, clock, loaded, leaderboard, topk>>
gwVars == <<gwOp, gwTrace, gwResult, gwError, gwCaught>>
invokeVars == <<signature, invocation>>

---------------------------------------------------------------------------
(* Python values that cross the tool surface. *)

None == [py |-> "None", location |-> FALSE, ok |-> "absent"]
RespStr == [py |-> "str", location |-> FALSE, ok |-> "absent"]
RespDict == [py |-> "dict", location |-> FALSE, ok |-> "absent"]
RespOkFalse == [py |-> "dict", location |-> FALSE, ok |-> "false"]
RespLoc == [py |-> "dict", location |-> TRUE, ok |-> "absent"]
RespLocOk == [py |-> "dict", location |-> TRUE, ok |-> "true"]

Responses == {None, RespStr, RespDict, RespOkFalse, RespLoc, RespLocOk}

\* Failures a platform function can raise by itself.
PlatformErrors == {"TimeoutError", "ConnectionError"}

\* What one execution of a capability does: raise a failure or return a value.
Raise(e) == [kind |-> "raise", val |-> e]
Return(v) == [kind |-> "return", val |-> v]
EnvOutcomes == {Raise(e) : e \in PlatformErrors} \cup {Return(v) : v \in Responses}
NotExecuted == [kind |-> "none", val |-> "none"]

isinstance_dict(resp) == resp.py = "dict"

---------------------------------------------------------------------------
(* MCPClient: dispatch. *)

RETRY_ATTEMPTS == 5
RETRY_WAIT_MULTIPLIER == 1
RETRY_WAIT_MAX == 30

query_tool == "get_submission_check"

_has_tool(name) == name \in tools

\* _call_tool: raise AttributeError when the name does not resolve, otherwise
\* execute the function; env is what the function does when executed.
_call_tool(name, env) ==
    IF ~_has_tool(name)
    THEN [out |-> Raise("AttributeError"), executed |-> FALSE]
    ELSE [out |-> env, executed |-> TRUE]

\* Body of run_tool.
run_tool(name, env) == _call_tool(name, env)

\* Mutant: the check for the location key is left out.
BadSubmission_NoLocationCheck(resp) == ~isinstance_dict(resp)

\* The shape check of wq_create_simulation on a response.
BadSubmission(resp) == ~isinstance_dict(resp) \/ ~resp.location

\* Body of wq_create_simulation.
wq_create_simulation(env) ==
    IF ~_has_tool("create_simulation")
    THEN [out |-> Raise("AttributeError"), executed |-> FALSE]
    ELSE LET r == _call_tool("create_simulation", env)
         IN  IF r.out.kind = "return" /\ BadSubmission(r.out.val)
             THEN [out |-> Raise("RuntimeError"), executed |-> r.executed]
             ELSE r

\* Mutant: the "not" of the isinstance check is dropped.
BadQueryResult_Inverted(resp) == isinstance_dict(resp)

\* Mutant: the response of the query tool is returned unexamined.
BadQueryResult_Unchecked(resp) == FALSE

\* The shape check of wq_get_result on a response.
BadQueryResult(resp) == ~isinstance_dict(resp)

\* Body of wq_get_result.
wq_get_result(env) ==
    IF ~_has_tool(query_tool)
    THEN [out |-> Raise("AttributeError"), executed |-> FALSE]
    ELSE LET r == _call_tool(query_tool, env)
         IN  IF r.out.kind = "return" /\ BadQueryResult(r.out.val)
             THEN [out |-> Raise("RuntimeError"), executed |-> r.executed]
             ELSE r

Body(fn, name, env) ==
    CASE fn = "run_tool" -> run_tool(name, env)
      [] fn = "wq_create_simulation" -> wq_create_simulation(env)
      [] fn = "wq_get_result" -> wq_get_result(env)

---------------------------------------------------------------------------
(* The tenacity policy of the three @retry decorators. *)

Min(a, b) == IF a < b THEN a ELSE b
Max(a, b) == IF a > b THEN a ELSE b

RECURSIVE Pow2(_)
Pow2(n) == IF n <= 0 THEN 1 ELSE 2 * Pow2(n - 1)

\* Mutant: the exponent is the attempt number itself.
wait_exponential_FromTwo(n) ==
    Max(1, Min(RETRY_WAIT_MULTIPLIER * Pow2(n), RETRY_WAIT_MAX))

\* wait_exponential(multiplier, min=1, max): the delay after attempt n.
wait_exponential(n) ==
    Max(1, Min(RETRY_WAIT_MULTIPLIER * Pow2(n - 1), RETRY_WAIT_MAX))

\* Mutant: the attempt counter is compared off by one.
stop_after_attempt_OffByOne(n) == n > RETRY_ATTEMPTS

\* stop_after_attempt(RETRY_ATTEMPTS)
stop_after_attempt(n) == n >= RETRY_ATTEMPTS

\* Every failure raised here is an instance of Exception.
Exception == PlatformErrors \cup {"AttributeError", "RuntimeError", "TypeError"}

\* Mutant: a missing tool is excluded from the retried failures.
retry_if_exception_type_NotAttributeError(out) ==
    out.kind = "raise" /\ out.val \in Exception \ {"AttributeError"}

\* retry_if_exception_type(Exception)
retry_if_exception_type(out) == out.kind = "raise" /\ out.val \in Exception

\* reraise=True: the exhausted call raises the last attempt's own failure.
reraise(out) == out.val

NoValue == [py |-> "no value", location |-> FALSE, ok |-> "absent"]
NoError == "no error"

IdleCall ==
    /\ callFn = "idle" /\ callName = "none" /\ callStatus = "idle"
    /\ log = <<>> /\ waits = <<>> /\ execs = 0 /\ lastEnv = NotExecuted
    /\ callResult = NoValue /\ callError = NoError

\* Entering a retry-wrapped method.
Begin(fn, name) ==
    /\ callFn' = fn
    /\ callName' = name
    /\ callStatus' = "running"
    /\ log' = <<>>
    /\ waits' = <<>>
    /\ execs' = 0
    /\ lastEnv' = NotExecuted
    /\ callResult' = NoValue
    /\ callError' = NoError

\* One attempt of the wrapped body followed by tenacity's decision: return the
\* value, sleep and go round again, or give up and re-raise.
Attempt ==
    /\ callStatus = "running"
    /\ \E env \in EnvOutcomes :
         LET r == Body(callFn, callName, env)
             n == Len(log) + 1
         IN  /\ log' = Append(log, r.out)
             /\ execs' = IF r.executed THEN execs + 1 ELSE execs
             /\ lastEnv' = IF r.executed THEN env ELSE NotExecuted
             /\ IF r.out.kind = "return"
                THEN /\ callStatus' = "returned"
                     /\ callResult' = r.out.val
                     /\ UNCHANGED <<waits, callError>>
                ELSE IF ~retry_if_exception_type(r.out)
                THEN /\ callStatus' = "raised"
                     /\ callError' = r.out.val
                     /\ UNCHANGED <<waits, callResult>>
                ELSE IF stop_after_attempt(n)
                THEN /\ callStatus' = "raised"
                     /\ callError' = reraise(r.out)
                     /\ UNCHANGED <<waits, callResult>>
                ELSE /\ waits' = Append(waits, wait_exponential(n))
                     /\ UNCHANGED <<callStatus, callResult, callError>>
    /\ UNCHANGED <<callFn, callName, tools, pc, state, graphError, mainOutcome,
                   saveAttempts, saveFailed, nAuthor, nDecide>>
    /\ UNCHANGED storeVars
    /\ UNCHANGED <<gwVars, invokeVars>>

---------------------------------------------------------------------------
(* GraphState and the nodes of the round state machine. *)

MaxRounds == 3

\* Scores the analyze stage can assign; two values make ties happen.
Scores == {1, 2}

NoCand == [round |-> -1, score |-> -1]

\* GraphState(goal=..., max_rounds=N) as main constructs it.
GraphState(N) ==
    [round_idx |-> 0, max_rounds |-> N, current_candidate |-> NoCand,
     location |-> FALSE, current_result |-> None, cont |-> TRUE,
     best |-> NoCand, history |-> <<>>, stop |-> FALSE]

\* The object main passes to app.invoke; the graph works on its own copy.
init == GraphState(state.max_rounds)

author_node(s) ==
    [s EXCEPT !.current_candidate = [round |-> s.round_idx, score |-> -1],
              !.location = FALSE, !.current_result = None]

submit_node(s, resp) == [s EXCEPT !.location = resp.location]

poll_node(s, resp) == [s EXCEPT !.current_result = resp]

\* The candidate is scored, appended to history, and replaces best only when
\* it scores strictly higher.
analyze_node(s, score, cont) ==
    LET c == [s.current_candidate EXCEPT !.score = score]
    IN  [s EXCEPT !.current_candidate = c,
                  !.cont = cont,
                  !.history = Append(s.history, c),
                  !.best = IF s.best = NoCand \/ score > s.best.score
                           THEN c ELSE s.best]

decide_node(s) ==
    LET stop == s.round_idx >= s.max_rounds - 1 \/ ~s.cont
    IN  [s EXCEPT !.stop = stop,
                  !.round_idx = IF stop THEN s.round_idx ELSE s.round_idx + 1]

\* Mutant: the edge out of "poll" bypasses "analyze".
NextNode_SkipAnalyze(node) ==
    CASE node = "planner" -> "author"
      [] node = "author" -> "risk"
      [] node = "risk" -> "submit"
      [] node = "submit" -> "poll"
      [] node = "poll" -> "decide"
      [] node = "analyze" -> "decide"

\* graph.add_edge(...): the unconditional edges.
NextNode(node) ==
    CASE node = "planner" -> "author"
      [] node = "author" -> "risk"
      [] node = "risk" -> "submit"
      [] node = "submit" -> "poll"
      [] node = "poll" -> "analyze"
      [] node = "analyze" -> "decide"

\* Mutant: the conditional edge always loops back.
DecideEdge_AlwaysLoop(s) == "author"

\* Mutant: the conditional edge is taken the wrong way round.
DecideEdge_Inverted(s) == IF s.stop THEN "author" ELSE "END"

\* graph.add_conditional_edges("decide", lambda s: END if s.stop else "author")
DecideEdge(s) == IF s.stop THEN "END" ELSE "author"

UnchangedRunRest ==
    UNCHANGED <<graphError, mainOutcome, saveAttempts, saveFailed>>

\* main: build the client, the store and the graph, and invoke the graph.
Main ==
    /\ pc = "init"
    /\ IdleCall
    /\ pc' = "planner"
    /\ UNCHANGED <<tools, state, nAuthor, nDecide>>
    /\ UnchangedRunRest
    /\ UNCHANGED <<callVars, storeVars, gwVars, invokeVars>>

Planner ==
    /\ pc = "planner"
    /\ pc' = NextNode("planner")
    /\ UNCHANGED <<tools, state, nAuthor, nDecide>>
    /\ UnchangedRunRest
    /\ UNCHANGED <<callVars, storeVars, gwVars, invokeVars>>

Author ==
    /\ pc = "author"
    /\ state' = author_node(state)
    /\ nAuthor' = nAuthor + 1
    /\ pc' = NextNode("author")
    /\ UNCHANGED <<tools, nDecide>>
    /\ UnchangedRunRest
    /\ UNCHANGED <<callVars, storeVars, gwVars, invokeVars>>

Risk ==
    /\ pc = "risk"
    /\ pc' = NextNode("risk")
    /\ UNCHANGED <<tools, state, nAuthor, nDecide>>
    /\ UnchangedRunRest
    /\ UNCHANGED <<callVars, storeVars, gwVars, invokeVars>>

\* A reasoning-oracle stage fails: the failure leaves app.invoke at once.
OracleFails ==
    /\ pc \in {"author", "risk", "analyze"}
    /\ pc' = "except"
    /\ graphError' = "OracleContractViolation"
    /\ UNCHANGED <<tools, state, nAuthor, nDecide, mainOutcome, saveAttempts,
                   saveFailed>>
    /\ UNCHANGED <<callVars, storeVars, gwVars, invokeVars>>

\* submit and poll each make one retry-wrapped client call.
NodeCall(node) ==
    IF node = "submit" THEN "wq_create_simulation" ELSE "wq_get_result"
NodeTool(node) ==
    IF node = "submit" THEN "create_simulation" ELSE query_tool

NodeCallBegin ==
    /\ pc \in {"submit", "poll"}
    /\ callStatus = "idle"
    /\ Begin(NodeCall(pc), NodeTool(pc))
    /\ UNCHANGED <<tools, runVars, storeVars, gwVars, invokeVars>>

ResetCall ==
    /\ callFn' = "idle" /\ callName' = "none" /\ callStatus' = "idle"
    /\ log' = <<>> /\ waits' = <<>> /\ execs' = 0 /\ lastEnv' = NotExecuted
    /\ callResult' = NoValue /\ callError' = NoError

NodeCallReturns ==
    /\ pc \in {"submit", "poll"}
    /\ callStatus = "returned"
    /\ state' = IF pc = "submit" THEN submit_node(state, callResult)
                ELSE poll_node(state, callResult)
    /\ pc' = NextNode(pc)
    /\ ResetCall
    /\ UNCHANGED <<tools, nAuthor, nDecide>>
    /\ UnchangedRunRest
    /\ UNCHANGED <<storeVars, gwVars, invokeVars>>

\* The call exhausted its retries: the failure leaves the node and app.invoke.
NodeCallRaises ==
    /\ pc \in {"submit", "poll"}
    /\ callStatus = "raised"
    /\ pc' = "except"
    /\ graphError' = callError
    /\ UNCHANGED <<tools, state, nAuthor, nDecide, mainOutcome, saveAttempts,
                   saveFailed>>
    /\ UNCHANGED <<callVars, storeVars, gwVars, invokeVars>>

Analyze ==
    /\ pc = "analyze"
    /\ \E score \in Scores, cont \in BOOLEAN :
         state' = analyze_node(state, score, cont)
    /\ pc' = NextNode("analyze")
    /\ UNCHANGED <<tools, nAuthor, nDecide>>
    /\ UnchangedRunRest
    /\ UNCHANGED <<callVars, storeVars, gwVars, invokeVars>>

Decide ==
    /\ pc = "decide"
    /\ state' = decide_node(state)
    /\ nDecide' = nDecide + 1
    /\ pc' = DecideEdge(state')
    /\ UNCHANGED <<tools, nAuthor>>
    /\ UnchangedRunRest
    /\ UNCHANGED <<callVars, storeVars, gwVars, invokeVars>>

---------------------------------------------------------------------------
(* SQLiteStore: the snapshots relation. *)

MaxSnapshots == 2
MaxClock == 1
MaxRows == 3
MaxK == 3

\* The last store call was not top_k.
NoTopK == [called |-> FALSE, k |-> 0, rows |-> <<>>]

\* json.dumps / json.loads: the text of a value, and the value of a text.
\* The values stored here are JSON-native (string keys, integers, booleans,
\* None, lists, dictionaries), for which loads gives back an equal value.
json_dumps(v) == [text |-> v]
json_loads(t) == t.text

\* Mutant: the snapshot table keeps one row per store, rewritten by each save.
save_snapshot_Overwrites(rows, now, round_idx, st) ==
    LET row == [ts |-> now, round_idx |-> round_idx, state_json |-> json_dumps(st)]
    IN  IF rows = <<>> THEN <<row>> ELSE [rows EXCEPT ![Len(rows)] = row]

\* INSERT INTO snapshots VALUES(int(time.time()), round_idx, json.dumps(state))
save_snapshot(rows, now, round_idx, st) ==
    Append(rows, [ts |-> now, round_idx |-> round_idx,
                  state_json |-> json_dumps(st)])

---------------------------------------------------------------------------
(* main: the ends of the driver. *)

\* Mutant: a failing save_snapshot escapes the inner try.
Reraised_SaveFailureEscapes(original, saveRaised) ==
    IF saveRaised THEN "sqlite3.OperationalError" ELSE original

\* The bare raise at the end of the except block: the failure of app.invoke.
Reraised(original, saveRaised) == original

\* The arguments of the save_snapshot call in the except block.
SnapshotArgs == [round_idx |-> init.round_idx, st |-> init]

\* except Exception: save a snapshot (which may itself fail), then re-raise.
HandleFailure ==
    /\ pc = "except"
    /\ \E saveRaised \in BOOLEAN :
         /\ snapshots' = IF saveRaised THEN snapshots
                         ELSE save_snapshot(snapshots, clock,
                                            SnapshotArgs.round_idx, SnapshotArgs.st)
         /\ saveFailed' = saveRaised
         /\ mainOutcome' = [kind |-> "raised",
                            err |-> Reraised(graphError, saveRaised)]
    /\ saveAttempts' = saveAttempts + 1
    /\ pc' = "done"
    /\ UNCHANGED <<tools, state, graphError, nAuthor, nDecide, clock, loaded>>
    /\ UNCHANGED <<leaderboard, topk>>
    /\ UNCHANGED <<callVars, gwVars, invokeVars>>

\* app.invoke returned: main prints the best candidate and returns.
Finish ==
    /\ pc = "END"
    /\ mainOutcome' = [kind |-> "returned", err |-> NoError]
    /\ pc' = "done"
    /\ UNCHANGED <<tools, state, graphError, saveAttempts, saveFailed, nAuthor,
                   nDecide>>
    /\ UNCHANGED <<callVars, storeVars, gwVars, invokeVars>>

---------------------------------------------------------------------------
(* Client calls made directly on an MCPClient, outside a run. *)

GenericTools == {"get_leaderboard"}
RunTools == {"create_simulation", query_tool} \cup GenericTools

CallRunTool ==
    /\ pc = "init"
    /\ callStatus # "running"
    /\ \E name \in GenericTools : Begin("run_tool", name)
    /\ UNCHANGED <<tools, runVars, storeVars, gwVars, invokeVars>>

CallCreateSimulation ==
    /\ pc = "init"
    /\ callStatus # "running"
    /\ Begin("wq_create_simulation", "create_simulation")
    /\ UNCHANGED <<tools, runVars, storeVars, gwVars, invokeVars>>

CallGetResult ==
    /\ pc = "init"
    /\ callStatus # "running"
    /\ Begin("wq_get_result", query_tool)
    /\ UNCHANGED <<tools, runVars, storeVars, gwVars, invokeVars>>

---------------------------------------------------------------------------
(* The specification of the client calls and the run. *)

NoOutcome == [kind |-> "none", err |-> NoError]
NoOp == [fn |-> "none", key |-> "none"]

---------------------------------------------------------------------------
(* _call_tool with the caller's keyword arguments: the timeout. *)

\* MCPClient(default_timeout=30)
default_timeout == 30

\* What inspect.signature says of a platform function: it declares a
\* parameter named timeout, it declares neither timeout nor **kwargs, or it
\* takes **kwargs without declaring timeout.
SigKinds == {"timeout", "plain", "var_keyword"}

\* The timeout among the keyword arguments: absent, or a value.
NoTimeout == [given |-> FALSE, t |-> 0]
Timeout(t) == [given |-> TRUE, t |-> t]
CallerTimeouts == {NoTimeout, Timeout(5)}

\* Mutant: every signature counts as declaring timeout.
SigHasTimeout_Always(kind) == TRUE

\* "timeout" in sig.parameters
SigHasTimeout(kind) == kind = "timeout"

\* if "timeout" in sig.parameters and "timeout" not in kwargs:
\*     kwargs["timeout"] = self.default_timeout
InjectTimeout(kind, kw) ==
    IF SigHasTimeout(kind) /\ ~kw.given THEN Timeout(default_timeout) ELSE kw

\* func(**kwargs) binds: a function that declares neither timeout nor
\* **kwargs raises TypeError when handed a timeout, before its body runs.
Binds(kind, kw) == ~(kind = "plain" /\ kw.given)

\* _call_tool(name, **kwargs) on a function of signature kind: the outcome,
\* the function executed if any, and the timeout it was called with.
_call_tool_kwargs(name, kind, kw, env) ==
    IF ~_has_tool(name)
    THEN [out |-> Raise("AttributeError"), ran |-> "none", passed |-> NoTimeout]
    ELSE LET passed == InjectTimeout(kind, kw)
         IN  IF Binds(kind, passed)
             THEN [out |-> env, ran |-> name, passed |-> passed]
             ELSE [out |-> Raise("TypeError"), ran |-> "none", passed |-> passed]

NoInvocation ==
    [name |-> "none", kw |-> NoTimeout,
     res |-> [out |-> Return(None), ran |-> "none", passed |-> NoTimeout]]

InvokeTools == {"get_alpha_pnl", "get_leaderboard"}
PlainSignatures == [n \in InvokeTools |-> "plain"]

CallTool ==
    /\ \E name \in InvokeTools, kw \in CallerTimeouts, env \in EnvOutcomes :
         invocation' =
             [name |-> name, kw |-> kw,
              res |-> _call_tool_kwargs(name, signature[name], kw, env)]
    /\ UNCHANGED <<tools, signature, callVars, runVars, storeVars, gwVars>>


InitRest ==
    /\ callFn = "idle" /\ callName = "none" /\ callStatus = "idle"
    /\ log = <<>> /\ waits = <<>> /\ execs = 0 /\ lastEnv = NotExecuted
    /\ callResult = NoValue /\ callError = NoError
    /\ pc = "init"
    /\ graphError = NoError
    /\ mainOutcome = NoOutcome
    /\ saveAttempts = 0
    /\ saveFailed = FALSE
    /\ nAuthor = 0
    /\ nDecide = 0
    /\ snapshots = <<>>
    /\ clock = 0
    /\ loaded = [unset |-> TRUE]
    /\ leaderboard = <<>>
    /\ topk = NoTopK
    /\ gwOp = NoOp
    /\ gwTrace = <<>>
    /\ gwResult = None
    /\ gwError = NoError
    /\ gwCaught = NoError
    /\ invocation = NoInvocation

Init ==
    /\ tools \in SUBSET RunTools
    /\ \E N \in 1..MaxRounds : state = GraphState(N)
    /\ InitRest
    /\ signature = PlainSignatures

Next ==
    \/ CallRunTool
    \/ CallCreateSimulation
    \/ CallGetResult
    \/ Attempt
    \/ Main
    \/ Planner
    \/ Author
    \/ Risk
    \/ OracleFails
    \/ NodeCallBegin
    \/ NodeCallReturns
    \/ NodeCallRaises
    \/ Analyze
    \/ Decide
    \/ HandleFailure
    \/ Finish

Spec == Init /\ [][Next]_vars

---------------------------------------------------------------------------
(* SQLiteStore used on its own: snapshots written and read back. *)

\* States handed to save_snapshot: GraphState dictionaries of a run.
StoreStates == {GraphState(1), [GraphState(2) EXCEPT !.round_idx = 1]}

\* The Python value {}.
EmptyDict == [k \in {} |-> 0]

NotLoaded == [unset |-> TRUE]

\* ORDER BY col DESC over a table scanned in rowid order. The query names no
\* second key; SQLite's sorter leaves rows of equal key in the order of the
\* scan, so each row goes behind the rows already placed whose key is not
\* smaller.
InsertRow(sorted, row, col) ==
    LET p == Cardinality({i \in 1..Len(sorted) : sorted[i][col] >= row[col]})
    IN  SubSeq(sorted, 1, p) \o <<row>> \o SubSeq(sorted, p + 1, Len(sorted))

RECURSIVE OrderByDesc(_, _)
OrderByDesc(rows, col) ==
    IF rows = <<>> THEN <<>>
    ELSE InsertRow(OrderByDesc(SubSeq(rows, 1, Len(rows) - 1), col),
                   rows[Len(rows)], col)

\* LIMIT k of n rows; a negative LIMIT is no limit.
Limit(k, n) == IF k < 0 THEN n ELSE Min(k, n)

\* SELECT state_json FROM snapshots ORDER BY ts DESC LIMIT 1;
\* json.loads(row[0]) if row else {}
load_latest_snapshot(rows) ==
    IF rows = <<>> THEN EmptyDict
    ELSE json_loads(OrderByDesc(rows, "ts")[1].state_json)

\* INSERT INTO leaderboard VALUES(int(time.time()), expr, json.dumps(settings),
\*                                score, comment)
add_leaderboard(rows, now, expr, settings, score, comment) ==
    Append(rows, [ts |-> now, expr |-> expr,
                  settings_json |-> json_dumps(settings),
                  score |-> score, comment |-> comment])

\* {"expr": r[0], "settings": json.loads(r[1]), "score": r[2], "ts": r[3]}
ResultRow(r) ==
    [expr |-> r.expr, settings |-> json_loads(r.settings_json),
     score |-> r.score, ts |-> r.ts]

\* Mutant: the query has no ORDER BY.
top_k_Unordered(rows, k) ==
    [j \in 1..Limit(k, Len(rows)) |-> ResultRow(rows[j])]

\* SELECT expr, settings_json, score, ts FROM leaderboard
\* ORDER BY score DESC LIMIT k
top_k(rows, k) ==
    LET o == OrderByDesc(rows, "score")
    IN  [j \in 1..Limit(k, Len(o)) |-> ResultRow(o[j])]

\* Leaderboard inputs: two expressions, scores in tenths, one settings
\* bundle, one comment.
Exprs == {"rank(close)", "rank(volume)"}
LeaderboardScores == {3, 5, 9}
Settings == [region |-> "USA"]
Comment == "ok"

\* time.time() moves on.
Tick ==
    /\ clock < MaxClock
    /\ clock' = clock + 1
    /\ UNCHANGED <<snapshots, loaded, leaderboard, topk, tools>>
    /\ UNCHANGED <<callVars, runVars, gwVars, invokeVars>>

SaveSnapshot ==
    /\ Len(snapshots) < MaxSnapshots
    /\ Len(snapshots) + Len(leaderboard) < MaxRows
    /\ \E st \in StoreStates :
         snapshots' = save_snapshot(snapshots, clock, st.round_idx, st)
    /\ topk' = NoTopK
    /\ loaded' = NotLoaded
    /\ UNCHANGED <<clock, leaderboard, tools>>
    /\ UNCHANGED <<callVars, runVars, gwVars, invokeVars>>

LoadLatestSnapshot ==
    /\ loaded' = load_latest_snapshot(snapshots)
    /\ topk' = NoTopK
    /\ UNCHANGED <<snapshots, clock, leaderboard, tools>>
    /\ UNCHANGED <<callVars, runVars, gwVars, invokeVars>>

AddLeaderboard ==
    /\ Len(snapshots) + Len(leaderboard) < MaxRows
    /\ \E expr \in Exprs, score \in LeaderboardScores :
         leaderboard' = add_leaderboard(leaderboard, clock, expr, Settings,
                                        score, Comment)
    /\ topk' = NoTopK
    /\ loaded' = NotLoaded
    /\ UNCHANGED <<snapshots, clock, tools>>
    /\ UNCHANGED <<callVars, runVars, gwVars, invokeVars>>

TopK ==
    /\ \E k \in -1..MaxK :
         topk' = [called |-> TRUE, k |-> k, rows |-> top_k(leaderboard, k)]
    /\ loaded' = NotLoaded
    /\ UNCHANGED <<snapshots, clock, leaderboard, tools>>
    /\ UNCHANGED <<callVars, runVars, gwVars, invokeVars>>

InitStore ==
    /\ tools = {}
    /\ state = GraphState(1)
    /\ InitRest
    /\ signature = PlainSignatures

NextStore ==
    \/ Tick
    \/ SaveSnapshot
    \/ LoadLatestSnapshot
    \/ AddLeaderboard
    \/ TopK

SpecStore == InitStore /\ [][NextStore]_vars

---------------------------------------------------------------------------
(* MCPClient: the best-effort persistence calls. *)

PyTrue == [py |-> "bool", location |-> FALSE, ok |-> "true"]
PyFalse == [py |-> "bool", location |-> FALSE, ok |-> "false"]

\* Mutant: the alternates are listed the other way round.
StorePutAlternates_Swapped == <<"manage_config", "save_simulation_data">>

StorePutAlternates == <<"save_simulation_data", "manage_config">>
StoreGetAlternates == <<"get_platform_setting_options", "get_user_profile">>

Elems(seq) == {seq[i] : i \in 1..Len(seq)}
StoreTools == {"store_put", "store_get"} \cup Elems(StorePutAlternates)
                  \cup Elems(StoreGetAlternates)

\* bool(resp.get("ok", True)) for a dict, True for anything else.
PutValue(resp) ==
    IF isinstance_dict(resp)
    THEN (IF resp.ok = "false" THEN PyFalse ELSE PyTrue)
    ELSE PyTrue

\* bool(resp) of a response that is not a dict.
Truthy(resp) ==
    /\ resp.py # "None"
    /\ ~(resp.py = "bool" /\ resp.ok = "false")

\* rate_limit_acquire: bool(resp.get("ok", True)) for a dict, else bool(resp).
AcquireValue(resp) ==
    IF isinstance_dict(resp)
    THEN (IF resp.ok = "false" THEN PyFalse ELSE PyTrue)
    ELSE (IF Truthy(resp) THEN PyTrue ELSE PyFalse)

\* What a call makes of the response of the capability it executed:
\* store_put and rate_limit_acquire a truth value, store_get the response
\* itself, rate_limit_release nothing.
ReturnValue(fn, resp) ==
    CASE fn = "store_put" -> PutValue(resp)
      [] fn = "store_get" -> resp
      [] fn = "rate_limit_acquire" -> AcquireValue(resp)
      [] fn = "rate_limit_release" -> None

\* What the except branch returns: False, or None.
ExceptValue(fn) ==
    IF fn \in {"store_put", "rate_limit_acquire"} THEN PyFalse ELSE None

\* Mutant: with no limiter found the request is refused.
NotFoundValue_Refuse(fn) ==
    IF fn \in {"store_put", "rate_limit_acquire"} THEN PyFalse ELSE None

\* What the statement after the loops returns, when no name resolved.
NotFoundValue(fn) ==
    CASE fn = "store_put" -> PyFalse
      [] fn = "store_get" -> None
      [] fn = "rate_limit_acquire" -> PyTrue
      [] fn = "rate_limit_release" -> None

\* Mutant: the handlers catch RuntimeError only.
Caught_RuntimeErrorOnly(e) == e = "RuntimeError"

\* except Exception as e
Caught(e) == e \in Exception

\* The keyword arguments each call hands to _call_tool.
KeywordArgs(fn) ==
    CASE fn = "store_put" -> {"key", "value"}
      [] fn = "store_get" -> {"key"}
      [] fn = "rate_limit_acquire" -> {"name", "permits"}
      [] fn = "rate_limit_release" -> {"name", "permits"}

\* def _call_tool(self, name: str, **kwargs): parameters bound positionally.
CallToolParams == {"self", "name"}

\* self._call_tool(name, **keywords): a keyword that names a parameter
\* already bound positionally is a TypeError raised before the body runs.
CallWithKeywords(fn, name, env) ==
    IF KeywordArgs(fn) \cap CallToolParams # {}
    THEN [out |-> Raise("TypeError"), executed |-> FALSE]
    ELSE _call_tool(name, env)

\* Mutant: a failed call is made once more before the handler gives up.
TryTool_CallsAgain(fn, name, env) ==
    LET r == CallWithKeywords(fn, name, env)
        one == IF r.executed THEN <<[name |-> name, out |-> r.out]>> ELSE <<>>
    IN  [ret |-> IF r.out.kind = "return" THEN ReturnValue(fn, r.out.val)
                 ELSE ExceptValue(fn),
         err |-> NoError,
         caught |-> IF r.out.kind = "raise" THEN r.out.val ELSE NoError,
         trace |-> IF r.out.kind = "return" THEN one ELSE one \o one]

\* try: one _call_tool and a return made of its response;
\* except Exception: the return of the except branch.
TryTool(fn, name, env) ==
    LET r == CallWithKeywords(fn, name, env)
        raised == r.out.kind = "raise"
    IN  [ret |-> IF ~raised THEN ReturnValue(fn, r.out.val)
                 ELSE IF Caught(r.out.val) THEN ExceptValue(fn)
                 ELSE NoValue,
         err |-> IF raised /\ ~Caught(r.out.val) THEN r.out.val ELSE NoError,
         caught |-> IF raised /\ Caught(r.out.val) THEN r.out.val ELSE NoError,
         trace |-> IF r.executed THEN <<[name |-> name, out |-> r.out]>>
                   ELSE <<>>]

\* for alt in (...): if self._has_tool(alt): try ... return; and the
\* return after the loop when no alternate resolves.
RECURSIVE TryAlternates(_, _, _)
TryAlternates(fn, alts, env) ==
    IF alts = <<>>
    THEN [ret |-> NotFoundValue(fn), err |-> NoError, caught |-> NoError,
          trace |-> <<>>]
    ELSE IF _has_tool(Head(alts))
    THEN TryTool(fn, Head(alts), env)
    ELSE TryAlternates(fn, Tail(alts), env)

store_put(env) ==
    IF _has_tool("store_put")
    THEN TryTool("store_put", "store_put", env)
    ELSE TryAlternates("store_put", StorePutAlternates, env)

store_get(env) ==
    IF _has_tool("store_get")
    THEN TryTool("store_get", "store_get", env)
    ELSE TryAlternates("store_get", StoreGetAlternates, env)

\* for fn in ("acquire_rate_limit", "acquire_rate_limit")
AcquireNames == <<"acquire_rate_limit", "acquire_rate_limit">>
\* for fn in ("release_rate_limit", "release_rate_limit")
ReleaseNames == <<"release_rate_limit", "release_rate_limit">>

rate_limit_acquire(env) == TryAlternates("rate_limit_acquire", AcquireNames, env)

rate_limit_release(env) == TryAlternates("rate_limit_release", ReleaseNames, env)

RateTools == Elems(AcquireNames) \cup Elems(ReleaseNames)
GatewayTools == StoreTools \cup RateTools

\* What a rate-limit or store capability can do: the outcomes above and a
\* bare True / False.
GatewayOutcomes == EnvOutcomes \cup {Return(PyTrue), Return(PyFalse)}

Keys == {"k1"}

\* One best-effort call from start to return.
GatewayCall(fn, key, r) ==
    /\ gwOp' = [fn |-> fn, key |-> key]
    /\ gwTrace' = r.trace
    /\ gwResult' = r.ret
    /\ gwError' = r.err
    /\ gwCaught' = r.caught
    /\ UNCHANGED <<tools, callVars, runVars, storeVars, invokeVars>>

StorePut ==
    \E key \in Keys, env \in GatewayOutcomes :
        GatewayCall("store_put", key, store_put(env))

StoreGet ==
    \E key \in Keys, env \in GatewayOutcomes :
        GatewayCall("store_get", key, store_get(env))

RateLimitAcquire ==
    \E key \in Keys, env \in GatewayOutcomes :
        GatewayCall("rate_limit_acquire", key, rate_limit_acquire(env))

RateLimitRelease ==
    \E key \in Keys, env \in GatewayOutcomes :
        GatewayCall("rate_limit_release", key, rate_limit_release(env))

InitGateway ==
    /\ tools \in SUBSET GatewayTools
    /\ state = GraphState(1)
    /\ InitRest
    /\ signature = PlainSignatures

NextGateway ==
    \/ StorePut
    \/ StoreGet
    \/ RateLimitAcquire
    \/ RateLimitRelease

SpecGateway == InitGateway /\ [][NextGateway]_vars

---------------------------------------------------------------------------
(* MCPClient._call_tool used on its own, with keyword arguments. *)

InitInvoke ==
    /\ tools \in SUBSET InvokeTools
    /\ state = GraphState(1)
    /\ InitRest
    /\ signature \in [InvokeTools -> SigKinds]

NextInvoke == CallTool

SpecInvoke == InitInvoke /\ [][NextInvoke]_vars

---------------------------------------------------------------------------
(* Properties. *)

AllRaise(l) == \A i \in 1..Len(l) : l[i].kind = "raise"
IsRaise(out, e) == out.kind = "raise" /\ out.val = e

(* C1: a retry-wrapped call whose every attempt fails makes exactly 5       *)
(* attempts, executes a resolvable capability exactly 5 times, and then     *)
(* raises the failure of the fifth attempt itself; no sixth attempt is      *)
(* ever made.                                                               *)
C1_ExhaustedRaisesLast ==
    /\ Len(log) <= 5
    /\ execs <= 5
    /\ callStatus = "running" => Len(log) < 5 /\ AllRaise(log)
    /\ (Len(log) = 5 /\ AllRaise(log)) => callStatus = "raised"
    /\ callStatus = "raised" =>
         /\ Len(log) = 5
         /\ AllRaise(log)
         /\ callError = log[5].val
         /\ callName \in tools => execs = 5

C1_Witness ==
    /\ callStatus = "raised"
    /\ execs = 5
    /\ log[1].val = "TimeoutError"
    /\ log[5].val = "ConnectionError"
    /\ callError = "ConnectionError"

(* C2 as stated: an unresolvable capability makes the call raise            *)
(* ToolNotFound on its first attempt, with no backoff wait and no second    *)
(* attempt; a run with an unresolvable submission capability fails on the   *)
(* first submit attempt.                                                    *)
C2_NotFoundNeverRetried ==
    (Len(log) >= 1 /\ IsRaise(log[1], "AttributeError")) =>
        /\ callStatus = "raised"
        /\ callError = "AttributeError"
        /\ Len(log) = 1
        /\ waits = <<>>

(* C2 amended: ToolNotFound is retried like every other failure. While the  *)
(* capability is unresolvable every attempt raises ToolNotFound without     *)
(* executing anything, a backoff wait follows each of the first four        *)
(* attempts, and the call raises ToolNotFound only out of its fifth         *)
(* attempt; a run whose submission capability is unresolvable raises        *)
(* ToolNotFound out of the fifth submit attempt of round 0.                 *)
C2_NotFoundRetriedFiveTimes ==
    (callStatus # "idle" /\ callName \notin tools) =>
        /\ execs = 0
        /\ \A i \in 1..Len(log) : IsRaise(log[i], "AttributeError")
        /\ Len(waits) = Min(Len(log), 4)
        /\ callStatus # "returned"
        /\ callStatus = "raised" <=> Len(log) = 5
        /\ callStatus = "raised" => callError = "AttributeError"
        /\ pc \in {"except", "done"} =>
             /\ graphError = "AttributeError"
             /\ Len(log) = 5
             /\ callFn = "wq_create_simulation" =>
                  state.round_idx = 0 /\ nAuthor = 1

C2_Witness ==
    /\ pc = "except"
    /\ "create_simulation" \notin tools
    /\ callFn = "wq_create_simulation"
    /\ graphError = "AttributeError"
    /\ Len(log) = 5
    /\ waits = <<1, 2, 4, 8>>
    /\ execs = 0

(* C3: with max_rounds = N a run executes author and decide at most N       *)
(* times each; author is only entered with stop false and round_idx < N;    *)
(* by the end of the N-th decide stop is true; and once decide has set      *)
(* stop the run is at the end state, never back in author.                  *)
C3_RoundBudget ==
    /\ nAuthor <= state.max_rounds
    /\ nDecide <= state.max_rounds
    /\ pc = "author" => ~state.stop /\ state.round_idx < state.max_rounds
    /\ nDecide = state.max_rounds => state.stop
    /\ state.stop => pc \in {"END", "done"}
    /\ pc = "END" => state.stop /\ nDecide = nAuthor

C3_Witness ==
    /\ pc = "END"
    /\ state.max_rounds = 3
    /\ nAuthor = 3
    /\ nDecide = 3
    /\ state.cont
    /\ state.stop

CompletedRounds == nDecide + (IF pc = "decide" THEN 1 ELSE 0)

BestOf(h) ==
    CHOOSE i \in 1..Len(h) :
        /\ \A j \in 1..Len(h) : h[j].score <= h[i].score
        /\ \A j \in 1..(i - 1) : h[j].score < h[i].score

HistoryBestInv ==
    LET h == state.history
    IN  /\ Len(h) = CompletedRounds
        /\ \A i \in 1..Len(h) : h[i].round = i - 1 /\ h[i].score \in Scores
        /\ state.best = NoCand <=> h = <<>>
        /\ h # <<>> => state.best = h[BestOf(h)]

HistoryAppendOnly ==
    /\ Len(state'.history) >= Len(state.history)
    /\ \A i \in 1..Len(state.history) : state'.history[i] = state.history[i]

(* C4: history holds exactly one entry per completed round, oldest first,   *)
(* entries already appended never change, and best is the highest-scoring   *)
(* entry of history, the earliest one among equal scores; best is absent    *)
(* exactly when history is empty.                                           *)
C4_HistoryAndBest == [] HistoryBestInv /\ [][HistoryAppendOnly]_vars

C4_Witness ==
    /\ pc = "END"
    /\ Len(state.history) = 3
    /\ state.history[1].score = 1
    /\ state.history[2].score = 2
    /\ state.history[3].score = 2
    /\ state.best = state.history[2]

\* The attempt the capability made is a success for the wrapped method.
AttemptSucceeds(fn, env) ==
    /\ env.kind = "return"
    /\ fn = "wq_create_simulation" => env.val.py = "dict" /\ env.val.location
    /\ fn = "wq_get_result" => env.val.py = "dict"

(* C5: a retry-wrapped call whose capability fails on the first k < 5       *)
(* attempts and succeeds on attempt k+1 returns at once the value of that   *)
(* attempt, raises nothing, and has executed the capability k+1 times.      *)
C5_SuccessAfterKFailures ==
    /\ (callStatus # "idle" /\ AttemptSucceeds(callFn, lastEnv)) =>
         callStatus = "returned"
    /\ callStatus = "returned" =>
         /\ Len(log) \in 1..5
         /\ AllRaise(SubSeq(log, 1, Len(log) - 1))
         /\ AttemptSucceeds(callFn, lastEnv)
         /\ callResult = lastEnv.val
         /\ callError = NoError
         /\ execs = Len(log)
         /\ Len(waits) = Len(log) - 1

C5_Witness ==
    /\ callStatus = "returned"
    /\ callFn = "wq_get_result"
    /\ Len(log) = 5
    /\ execs = 5
    /\ callResult = RespOkFalse

PutChain == <<"store_put", "save_simulation_data", "manage_config">>
GetChain == <<"store_get", "get_platform_setting_options", "get_user_profile">>
ChainOf(fn) == IF fn = "store_put" THEN PutChain ELSE GetChain
TraceNames == {gwTrace[i].name : i \in 1..Len(gwTrace)}

IsStoreOp == gwOp.fn \in {"store_put", "store_get"}

GwFailed ==
    \/ gwTrace = <<>>
    \/ gwTrace[Len(gwTrace)].out.kind = "raise"
    \/ gwOp.fn = "store_put" /\ gwResult = PyFalse

(* C6 as stated: store_put / store_get report failure or absence only       *)
(* after every resolvable name of the chain has been tried.                 *)
C6_FailureOnlyAfterWholeChain ==
    (IsStoreOp /\ GwFailed) =>
        \A i \in 1..3 : ChainOf(gwOp.fn)[i] \in tools =>
                            ChainOf(gwOp.fn)[i] \in TraceNames

\* The result the one executed capability stands for.
GwValue(fn, out) ==
    IF fn = "store_put"
    THEN (IF out.kind = "raise" THEN PyFalse
          ELSE IF out.val.py = "dict" /\ out.val.ok = "false" THEN PyFalse
          ELSE PyTrue)
    ELSE (IF out.kind = "raise" THEN None ELSE out.val)

(* C6 amended: store_put / store_get go through the primary name and then   *)
(* the alternates in the declared order, but execute only the first name    *)
(* that is resolvable, once; that one attempt decides the result, so a      *)
(* failure of it ends the chain although later alternates are untried.      *)
(* A later name is used only when every earlier one is unresolvable, and    *)
(* with no resolvable name the result is false / absent, nothing executed.  *)
C6_FirstResolvableDecides ==
    IsStoreOp =>
        LET c == ChainOf(gwOp.fn)
            R == {i \in 1..3 : c[i] \in tools}
        IN  IF R = {}
            THEN /\ gwTrace = <<>>
                 /\ gwResult = IF gwOp.fn = "store_put" THEN PyFalse ELSE None
            ELSE /\ Len(gwTrace) = 1
                 /\ \A i \in R : gwTrace[1].name = c[i] \/ c[i] \notin TraceNames
                 /\ \E i \in R : /\ gwTrace[1].name = c[i]
                                 /\ \A j \in R : i <= j
                 /\ gwResult = GwValue(gwOp.fn, gwTrace[1].out)

C6_Witness ==
    /\ gwOp.fn = "store_put"
    /\ tools = {"store_put", "save_simulation_data", "manage_config"}
    /\ Len(gwTrace) = 1
    /\ gwTrace[1].name = "store_put"
    /\ gwTrace[1].out.kind = "raise"
    /\ gwResult = PyFalse

(* C7: after a fatal failure the snapshot main saved carries the round      *)
(* index of the failing round and the history and best of the rounds        *)
(* completed before the failure.                                            *)
C7_SnapshotOfFailingRound ==
    (pc = "done" /\ mainOutcome.kind = "raised" /\ ~saveFailed) =>
        LET row == snapshots[Len(snapshots)]
            saved == json_loads(row.state_json)
        IN  /\ row.round_idx = state.round_idx
            /\ saved.round_idx = state.round_idx
            /\ saved.history = state.history
            /\ saved.best = state.best

(* C8: when app.invoke raises, main makes exactly one save_snapshot call    *)
(* and then raises the failure of app.invoke, whether that save succeeded   *)
(* or itself failed; a run that ends normally saves nothing.                *)
C8_OneSaveThenOriginal ==
    /\ pc = "except" => saveAttempts = 0 /\ graphError # NoError
    /\ (pc = "done" /\ mainOutcome.kind = "returned") =>
         saveAttempts = 0 /\ snapshots = <<>>
    /\ (pc = "done" /\ mainOutcome.kind = "raised") =>
         /\ saveAttempts = 1
         /\ mainOutcome.err = graphError
         /\ graphError # NoError
         /\ Len(snapshots) = IF saveFailed THEN 0 ELSE 1

C8_Witness ==
    /\ pc = "done"
    /\ saveFailed
    /\ saveAttempts = 1
    /\ snapshots = <<>>
    /\ mainOutcome = [kind |-> "raised", err |-> "RuntimeError"]

(* C9: a create_simulation response that is not a map or has no location    *)
(* makes the attempt raise; that failure is retried with a backoff wait     *)
(* while fewer than 5 attempts were made and raised by the call after the   *)
(* fifth; a map with location is returned as it is.                         *)
C9_SubmissionValidation ==
    (callFn = "wq_create_simulation" /\ lastEnv.kind = "return") =>
        IF lastEnv.val.py # "dict" \/ ~lastEnv.val.location
        THEN /\ IsRaise(log[Len(log)], "RuntimeError")
             /\ execs = Len(log)
             /\ Len(log) < 5 => callStatus = "running" /\ Len(waits) = Len(log)
             /\ Len(log) >= 5 => /\ Len(log) = 5
                                 /\ callStatus = "raised"
                                 /\ callError = "RuntimeError"
        ELSE /\ callStatus = "returned"
             /\ callResult = lastEnv.val

C9_Witness ==
    /\ callFn = "wq_create_simulation"
    /\ callStatus = "raised"
    /\ callError = "RuntimeError"
    /\ \A i \in 1..5 : IsRaise(log[i], "RuntimeError")
    /\ execs = 5
    /\ lastEnv = Return(RespDict)

\* What the claim expects of a load: the state of the row written last.
MostRecentlyWritten(rows) ==
    IF rows = <<>> THEN EmptyDict ELSE json_loads(rows[Len(rows)].state_json)

(* C10: load_latest_snapshot returns the state of the snapshot written      *)
(* last, also when several were written within one clock second, and the    *)
(* empty mapping when none was written.                                     *)
C10_LoadsMostRecentlyWritten ==
    [][LoadLatestSnapshot => loaded' = MostRecentlyWritten(snapshots)]_vars

\* What a store call returns when it did not succeed: false, or absent.
StoreFailure(fn) == IF fn = "store_put" THEN PyFalse ELSE None

(* C11: store_put and store_get never raise to the caller, whatever the     *)
(* executed capability does: a raise of the capability is caught and gives  *)
(* false / absent, a map with ok=false gives false from store_put, and      *)
(* with no resolvable persistence name they return false / absent without   *)
(* executing anything.                                                      *)
C11_StoreNeverRaises ==
    IsStoreOp =>
        /\ gwError = NoError
        /\ gwResult # NoValue
        /\ gwCaught # NoError => gwResult = StoreFailure(gwOp.fn)
        /\ (/\ gwOp.fn = "store_put"
            /\ gwTrace # <<>>
            /\ gwTrace[1].out.kind = "return"
            /\ gwTrace[1].out.val.py = "dict"
            /\ gwTrace[1].out.val.ok = "false") => gwResult = PyFalse
        /\ (\A i \in 1..3 : ChainOf(gwOp.fn)[i] \notin tools) =>
               /\ gwTrace = <<>>
               /\ gwResult = StoreFailure(gwOp.fn)

C11_Witness ==
    /\ gwOp.fn = "store_get"
    /\ tools = {"get_user_profile", "acquire_rate_limit"}
    /\ Len(gwTrace) = 1
    /\ gwTrace[1].name = "get_user_profile"
    /\ gwCaught = "ConnectionError"
    /\ gwResult = None
    /\ gwError = NoError

IsRateOp == gwOp.fn \in {"rate_limit_acquire", "rate_limit_release"}

(* C13 as stated: a failure inside a rate-limit call with a resolvable      *)
(* limiter is absorbed and fails open: rate_limit_acquire returns true,     *)
(* rate_limit_release returns normally.                                     *)
C13_RateLimitFailsOpen ==
    (IsRateOp /\ gwCaught # NoError) =>
        /\ gwError = NoError
        /\ gwOp.fn = "rate_limit_acquire" => gwResult = PyTrue
        /\ gwOp.fn = "rate_limit_release" => gwResult = None

(* C14: with no resolvable limiter name rate_limit_acquire returns true     *)
(* and rate_limit_release returns nothing; neither executes a capability    *)
(* nor raises.                                                              *)
C14_NoLimiterGrants ==
    /\ (gwOp.fn = "rate_limit_acquire" /\ "acquire_rate_limit" \notin tools) =>
           /\ gwResult = PyTrue
           /\ gwTrace = <<>>
           /\ gwError = NoError
           /\ gwCaught = NoError
    /\ (gwOp.fn = "rate_limit_release" /\ "release_rate_limit" \notin tools) =>
           /\ gwResult = None
           /\ gwTrace = <<>>
           /\ gwError = NoError
           /\ gwCaught = NoError

C14_Witness ==
    /\ gwOp.fn = "rate_limit_acquire"
    /\ tools = {"store_put", "release_rate_limit"}
    /\ gwResult = PyTrue
    /\ gwTrace = <<>>

(* C17: one rate_limit_acquire, rate_limit_release, store_put or store_get  *)
(* call executes at most one capability, at most once, and no backoff wait  *)
(* is ever taken for it, also when the capability raises.                   *)
C17_GatewayCallsNotRetried ==
    gwOp.fn # "none" =>
        /\ Len(gwTrace) <= 1
        /\ waits = <<>>
        /\ callStatus = "idle"

C17_Witness ==
    /\ gwOp.fn = "store_get"
    /\ "store_get" \in tools
    /\ Len(gwTrace) = 1
    /\ gwTrace[1].out = Raise("TimeoutError")
    /\ gwResult = None
    /\ waits = <<>>

\* Row i comes before row j in the ranking: higher score, or equal score
\* and written earlier.
RankedBefore(rows, i, j) ==
    \/ rows[i].score > rows[j].score
    \/ rows[i].score = rows[j].score /\ i < j

\* Position of row i in the ranking, counted from 1.
RankOf(rows, i) ==
    1 + Cardinality({j \in 1..Len(rows) : RankedBefore(rows, j, i)})

\* The last call was top_k(k) with k >= 0, and its result is the first
\* min(k, n) rows of the ranking of the n leaderboard rows.
TopKResultRanked ==
    (topk.called /\ topk.k >= 0) =>
        LET n == Len(leaderboard)
            m == IF topk.k < n THEN topk.k ELSE n
        IN  /\ Len(topk.rows) = m
            /\ \A i \in 1..n :
                 RankOf(leaderboard, i) <= m =>
                     LET r == topk.rows[RankOf(leaderboard, i)]
                     IN  /\ r.expr = leaderboard[i].expr
                         /\ r.score = leaderboard[i].score
                         /\ r.ts = leaderboard[i].ts
                         /\ r.settings = Settings
            /\ (/\ n = 3 /\ topk.k = 2
                /\ leaderboard[1].score = 5
                /\ leaderboard[2].score = 9
                /\ leaderboard[3].score = 3) =>
                   /\ topk.rows[1].score = 9
                   /\ topk.rows[2].score = 5

(* C12: top_k(k), k >= 0, over n leaderboard rows returns min(k, n)         *)
(* entries: the j-th is the row with j-1 rows ranked before it, where a     *)
(* row ranks before another when its score is higher, or equal and it was   *)
(* written earlier; scores [5, 9, 3] and k = 2 give the 9 row, then the 5   *)
(* row. A step that ends with a top_k result leaves the leaderboard as it   *)
(* was.                                                                     *)
C12_TopKRanked ==
    /\ []TopKResultRanked
    /\ [][topk'.called => leaderboard' = leaderboard]_vars

C12_Witness ==
    /\ Len(leaderboard) = 3
    /\ leaderboard[1].score = 5 /\ leaderboard[1].expr = "rank(volume)"
    /\ leaderboard[2].score = 9
    /\ leaderboard[3].score = 5 /\ leaderboard[3].expr = "rank(close)"
    /\ topk.called /\ topk.k = 3
    /\ Len(topk.rows) = 3
    /\ topk.rows[2].expr = "rank(volume)"
    /\ topk.rows[3].expr = "rank(close)"

\* rows is what old was, with exactly one row added at the end.
OneRowAppended(old, rows) ==
    /\ Len(rows) = Len(old) + 1
    /\ SubSeq(rows, 1, Len(old)) = old

(* C16: save_snapshot adds exactly one snapshot row and add_leaderboard     *)
(* exactly one leaderboard row, each leaving the other table and every      *)
(* earlier row as they were; every other step (load_latest_snapshot,       *)
(* top_k, the passing of time) changes no row.                              *)
C16_AppendOnly ==
    [][/\ SaveSnapshot => /\ OneRowAppended(snapshots, snapshots')
                          /\ leaderboard' = leaderboard
       /\ AddLeaderboard => /\ OneRowAppended(leaderboard, leaderboard')
                            /\ snapshots' = snapshots
       /\ \/ snapshots' = snapshots /\ leaderboard' = leaderboard
          \/ SaveSnapshot
          \/ AddLeaderboard]_vars

C16_Witness ==
    /\ Len(snapshots) = 2
    /\ Len(leaderboard) = 1
    /\ snapshots[1].state_json # snapshots[2].state_json
    /\ snapshots[1].ts = snapshots[2].ts
    /\ loaded = json_loads(snapshots[1].state_json)

\* The delays one call can take, in order.
BackoffTable == <<1, 2, 4, 8>>

(* C15: the wait after the n-th failed attempt is min(2^(n-1), 30): 1, 2,   *)
(* 4, 8, 16, then 30; the waits of one call are the first entries of 1, 2,  *)
(* 4, 8, one after each failed attempt but the last one, so never after     *)
(* the call has returned or raised.                                         *)
C15_BackoffSchedule ==
    /\ <<wait_exponential(1), wait_exponential(2), wait_exponential(3),
         wait_exponential(4), wait_exponential(5), wait_exponential(6),
         wait_exponential(7)>> = <<1, 2, 4, 8, 16, 30, 30>>
    /\ Len(waits) <= 4
    /\ \A i \in 1..Len(waits) : waits[i] = BackoffTable[i]
    /\ callStatus = "running" =>
           /\ Len(waits) = Len(log)
           /\ \A i \in 1..Len(log) : log[i].kind = "raise"
    /\ callStatus \in {"returned", "raised"} => Len(waits) = Len(log) - 1

C15_Witness ==
    /\ callFn = "run_tool"
    /\ callStatus = "raised"
    /\ Len(log) = 5
    /\ waits = <<1, 2, 4, 8>>

\* The edges a run can take from stage to stage, with the ways out of the
\* graph: a stage's failure into main's except block, and main's return.
StageEdges ==
    {<<"init", "planner">>, <<"planner", "author">>, <<"author", "risk">>,
     <<"risk", "submit">>, <<"submit", "poll">>, <<"poll", "analyze">>,
     <<"analyze", "decide">>, <<"decide", "author">>, <<"decide", "END">>,
     <<"END", "done">>, <<"except", "done">>}
    \cup {<<st, "except">> : st \in {"author", "risk", "submit", "poll", "analyze"}}

\* Where a run is within its rounds: before author and after decide as many
\* authors as decides have run, in between one author more.
StagePosition ==
    /\ pc \in {"init", "planner"} => nAuthor = 0 /\ nDecide = 0
    /\ pc \in {"author", "END"} => nAuthor = nDecide
    /\ pc \in {"risk", "submit", "poll", "analyze", "decide"} =>
           nAuthor = nDecide + 1

C19_PollValidation ==
    (callFn = "wq_get_result" /\ lastEnv.kind = "return") =>
        IF lastEnv.val.py # "dict"
        THEN /\ IsRaise(log[Len(log)], "RuntimeError")
             /\ execs = Len(log)
             /\ Len(log) < 5 => callStatus = "running" /\ Len(waits) = Len(log)
             /\ Len(log) >= 5 => /\ Len(log) = 5
                                 /\ callStatus = "raised"
                                 /\ callError = "RuntimeError"
        ELSE /\ callStatus = "returned"
             /\ callResult = lastEnv.val
             /\ execs = Len(log)

C19_Witness ==
    /\ callFn = "wq_get_result"
    /\ pc = "poll"
    /\ callStatus = "raised"
    /\ callError = "RuntimeError"
    /\ \A i \in 1..5 : IsRaise(log[i], "RuntimeError")
    /\ execs = 5
    /\ lastEnv = Return(RespStr)

=============================================================================
